---- MODULE Spec2Model ----
(***************************************************************************)
(* A model of pdf_parser.py: the text normaliser (clean_text), the block   *)
(* classifier (classify_text_block) and the document assembler             *)
(* (parse_pdf_to_json) with its section tracker.                           *)
(*                                                                         *)
(* Text is a sequence of one-character strings.  Font sizes are in tenths  *)
(* of a point (14.0 is 140).  Python's None is the empty tuple and a       *)
(* string value s held in an optional field is <<s>>.                      *)
(***************************************************************************)
EXTENDS Integers, Sequences, FiniteSets, TLC

\* ------------------------------------------------------------------ bounds
MaxPages == 2
MaxBlocks == 2
MaxTables == 1
MaxImages == 1
MaxY == 2
MaxLines == 2
MaxSpans == 2
MaxLen == 5

\* --------------------------------------------------------------- constants
HEADING_FONT_SIZE_THRESHOLD == 140
SUBHEADING_FONT_SIZE_THRESHOLD == 115
HEADING_WORD_COUNT_THRESHOLD == 10

None == << >>
Some(s) == << s >>

\* ------------------------------------------------------- string primitives
\* The characters Python's \s, str.strip() and str.split() treat as blank.
IsSpace(c) == c \in {" ", "\n", "\t"}

\* str.lower() on one character.
LowerChar(c) ==
  CASE c = "B" -> "b"
    [] c = "O" -> "o"
    [] c = "L" -> "l"
    [] c = "D" -> "d"
    [] OTHER -> c

\* str.lower()
Lower(s) == [k \in 1..Len(s) |-> LowerChar(s[k])]

\* needle in hay (Python's substring test)
Contains(hay, needle) ==
  \E k \in 0..(Len(hay) - Len(needle)) :
    \A j \in 1..Len(needle) : hay[k + j] = needle[j]

\* Length of the maximal run of blanks at the head of s.
RECURSIVE LeadingSpaces(_)
LeadingSpaces(s) ==
  IF s = << >> \/ ~IsSpace(Head(s)) THEN 0 ELSE 1 + LeadingSpaces(Tail(s))

\* Length of the maximal run of non-blanks at the head of s.
RECURSIVE LeadingWord(_)
LeadingWord(s) ==
  IF s = << >> \/ IsSpace(Head(s)) THEN 0 ELSE 1 + LeadingWord(Tail(s))

\* re.sub(r'\s*\n\s*', ' ', s): leftmost greedy matches; a match starts at
\* the head of a blank run and covers the whole run iff the run holds "\n".
RECURSIVE SubNewlineRuns(_)
SubNewlineRuns(s) ==
  IF s = << >> THEN << >>
  ELSE IF ~IsSpace(Head(s)) THEN << Head(s) >> \o SubNewlineRuns(Tail(s))
  ELSE LET n == LeadingSpaces(s)
           run == SubSeq(s, 1, n)
           rest == SubSeq(s, n + 1, Len(s))
       IN IF \E k \in 1..n : run[k] = "\n"
            THEN << " " >> \o SubNewlineRuns(rest)
            ELSE run \o SubNewlineRuns(rest)

\* s.replace("  ", " "): each pair of blanks, left to right, made one space.
RECURSIVE SubSpacePairs(_)
SubSpacePairs(s) ==
  IF s = << >> THEN << >>
  ELSE IF Len(s) >= 2 /\ IsSpace(s[1]) /\ IsSpace(s[2])
    THEN << " " >> \o SubSpacePairs(SubSeq(s, 3, Len(s)))
  ELSE << Head(s) >> \o SubSpacePairs(Tail(s))

\* re.sub(r'\s+', ' ', s)
RECURSIVE SubSpaceRuns(_)
SubSpaceRuns(s) ==
  IF s = << >> THEN << >>
  ELSE IF ~IsSpace(Head(s)) THEN << Head(s) >> \o SubSpaceRuns(Tail(s))
  ELSE << " " >> \o SubSpaceRuns(SubSeq(s, LeadingSpaces(s) + 1, Len(s)))

\* Length of the maximal run of blanks at the end of s.
RECURSIVE TrailingSpaces(_)
TrailingSpaces(s) ==
  IF s = << >> \/ ~IsSpace(s[Len(s)]) THEN 0
  ELSE 1 + TrailingSpaces(SubSeq(s, 1, Len(s) - 1))

\* str.strip()
Strip(s) ==
  LET a == LeadingSpaces(s)
  IN IF a = Len(s) THEN << >>
     ELSE SubSeq(s, a + 1, Len(s) - TrailingSpaces(s))

\* str.split(): the maximal runs of non-blanks, in order.
RECURSIVE Split(_)
Split(s) ==
  IF s = << >> THEN << >>
  ELSE IF IsSpace(Head(s)) THEN Split(SubSeq(s, LeadingSpaces(s) + 1, Len(s)))
  ELSE LET n == LeadingWord(s)
       IN << SubSeq(s, 1, n) >> \o Split(SubSeq(s, n + 1, Len(s)))

\* sep.join(parts)
RECURSIVE Join(_, _)
Join(sep, parts) ==
  IF parts = << >> THEN << >>
  ELSE IF Len(parts) = 1 THEN parts[1]
  ELSE parts[1] \o sep \o Join(sep, Tail(parts))

clean_text(text) == Strip(SubSpaceRuns(SubNewlineRuns(text)))

\* ---------------------------------------------------------------- classifier
BOLD == << "b", "o", "l", "d" >>

is_bold(span) == Contains(Lower(span.font), BOLD)

\* The texts of the spans of one line, in span order.
SpanTexts(line) == [k \in 1..Len(line.spans) |-> line.spans[k].text]

\* classify_text_block with the heading threshold taken inclusively.
classify_heading_at_threshold(block) ==
  IF block.lines = << >> THEN "paragraph"
  ELSE LET first_line == block.lines[1]
       IN IF first_line.spans = << >> THEN "IndexError"
          ELSE LET first_span == first_line.spans[1]
                   font_size == first_span.size
                   text == Strip(Join(<< >>, SpanTexts(first_line)))
                   word_count == Len(Split(text))
               IN IF font_size >= HEADING_FONT_SIZE_THRESHOLD /\ is_bold(first_span)
                    THEN "section"
                  ELSE IF font_size > SUBHEADING_FONT_SIZE_THRESHOLD /\ is_bold(first_span)
                    THEN "sub_section"
                  ELSE IF is_bold(first_span) /\ word_count < HEADING_WORD_COUNT_THRESHOLD
                    THEN "sub_section"
                  ELSE "paragraph"

\* The result is a tier, or "IndexError" when first_line['spans'][0] raises.
classify_text_block(block) ==
  IF block.lines = << >> THEN "paragraph"
  ELSE LET first_line == block.lines[1]
       IN IF first_line.spans = << >> THEN "IndexError"
          ELSE LET first_span == first_line.spans[1]
                   font_size == first_span.size
                   text == Strip(Join(<< >>, SpanTexts(first_line)))
                   word_count == Len(Split(text))
               IN IF font_size > HEADING_FONT_SIZE_THRESHOLD /\ is_bold(first_span)
                    THEN "section"
                  ELSE IF font_size > SUBHEADING_FONT_SIZE_THRESHOLD /\ is_bold(first_span)
                    THEN "sub_section"
                  ELSE IF is_bold(first_span) /\ word_count < HEADING_WORD_COUNT_THRESHOLD
                    THEN "sub_section"
                  ELSE "paragraph"

\* ------------------------------------------------------------ input domains
Ys == 1..MaxY

\* n words of one letter separated by single spaces
RECURSIVE Words(_)
Words(n) ==
  IF n = 0 THEN << >>
  ELSE IF n = 1 THEN << "a" >>
  ELSE << "a", " " >> \o Words(n - 1)

FontBold == << "B", "o", "l", "d" >>
FontBoldMT == << "x", "-", "B", "O", "L", "D", "M" >>
FontBol == << "B", "o", "l" >>
FontRegular == << "R" >>

Span(t, sz, f) == [text |-> t, size |-> sz, font |-> f]
Line(sp) == [spans |-> sp]

\* All sequences over S of length at most n.
SeqsUpTo(S, n) == UNION {[1..k -> S] : k \in 0..n}

\* The line structures page.get_text("dict") is taken to produce for the
\* blocks of a page: a large bold heading, a medium bold heading, body text
\* broken over two lines, a large bold block of blanks only, and a block
\* whose first line has no spans.
BlockLines ==
  { << Line(<< Span(<< "A" >>, 160, FontBold) >>) >>,
    << Line(<< Span(<< "u", " " >>, 120, FontBoldMT) >>) >>,
    << Line(<< Span(<< "p", "\n" >>, 90, FontRegular) >>),
       Line(<< Span(<< "q" >>, 90, FontRegular) >>) >>,
    << Line(<< Span(<< " ", "\n" >>, 160, FontBold) >>) >>,
    << Line(<< >>), Line(<< Span(<< "m" >>, 90, FontRegular) >>) >> }

\* A text block (PyMuPDF block type 0) and an image block (type 1, which has
\* no 'lines' key).  Only bbox[1] is read.
TextBlock(y, ls) == [type |-> "text", bbox |-> << 0, y, 0, 0 >>, lines |-> ls]
ImageBlock(y) == [type |-> "image", bbox |-> << 0, y, 0, 0 >>]

Blocks == {TextBlock(y, ls) : y \in Ys, ls \in BlockLines} \cup {ImageBlock(y) : y \in Ys}

\* A table camelot finds on page p: its frame (the pandas DataFrame, named by
\* where it was found) and its _bbox.
Table(p, k, y) == [df |-> << "df", p, k >>, _bbox |-> << 0, y, 0, 0 >>]

TablesOfPage(p) ==
  UNION {{[k \in 1..n |-> Table(p, k, ys[k])] : ys \in [1..n -> Ys]} : n \in 0..MaxTables}

\* page.get_images(full=True) with page.get_image_bbox(img) of each
ImagesOfPage == SeqsUpTo(Ys, MaxImages)

\* ------------------------------------------------------------------- state
VARIABLES
  pc,                  \* where parse_pdf_to_json is
  exc,                 \* the exception that left parse_pdf_to_json, or "none"
  ndoc,                \* len(doc)
  i,                   \* the page of the up-front table pass
  pdf_tables,          \* the tables the file holds, per page (what camelot reads)
  all_tables,          \* all_tables
  current_section,
  current_sub_section,
  page_num,
  elements,
  idx,                 \* position of the element loop in elements (1-based)
  page_content,
  output_json,         \* output_json["pages"]
  failed_pages,        \* history: pages whose up-front camelot call raised
  gathered,            \* history: elements as gathered, before the sort
  page_start,          \* history: the tracker when the page loop entered this page
  last,                \* history: what the last step of the element loop did
  set_at,              \* history: where the items of the headings that set
                       \* current_section and current_sub_section are
  out_file,            \* the file main writes: whether it exists, the page
                       \* entries written to it, whether the dump finished
  norm,                \* a string and what clean_text made of it
  cblock,              \* the argument of a bare classify_text_block call
  ctier                \* its result

vars == << pc, exc, ndoc, i, pdf_tables, all_tables, current_section,
           current_sub_section, page_num, elements, idx, page_content,
           output_json, failed_pages, gathered, page_start, last, set_at,
           out_file, norm, cblock, ctier >>

parse_vars == << pc, exc, ndoc, i, pdf_tables, all_tables, current_section,
                 current_sub_section, page_num, elements, idx, page_content,
                 output_json, failed_pages, gathered, page_start, last,
                 set_at, out_file >>

Step(kind, tier, text, before) ==
  [kind |-> kind, tier |-> tier, text |-> text, before |-> before]

NoStep == Step("none", "", << >>, << None, None >>)

\* The place of an item: << page, index in the page's content >>.
NoPos == << 0, 0 >>

NoFile == [exists |-> FALSE, written |-> 0, complete |-> FALSE]

NoNorm == [input |-> << >>, text |-> << >>, prev |-> << >>, applied |-> 0]

ParseInit ==
  /\ pc = "open"
  /\ exc = "none"
  /\ ndoc = 0
  /\ i = 1
  /\ pdf_tables = << >>
  /\ all_tables = << >>
  /\ current_section = None
  /\ current_sub_section = None
  /\ page_num = 1
  /\ elements = << >>
  /\ idx = 1
  /\ page_content = << >>
  /\ output_json = << >>
  /\ failed_pages = {}
  /\ gathered = << >>
  /\ page_start = << None, None >>
  /\ last = NoStep
  /\ set_at = << NoPos, NoPos >>
  /\ out_file = NoFile

Init ==
  /\ ParseInit
  /\ norm = NoNorm
  /\ cblock = TextBlock(1, << >>)
  /\ ctier = "unset"

\* -------------------------------------------------------- helpers of the run
\* [span['text'] for line in element['lines'] for span in line['spans']]
RECURSIVE AllSpanTexts(_)
AllSpanTexts(lines) ==
  IF lines = << >> THEN << >>
  ELSE SpanTexts(Head(lines)) \o AllSpanTexts(Tail(lines))

\* block_text of lines 147-150
BlockText(element) == clean_text(Join(<< " " >>, AllSpanTexts(element.lines)))

\* The emptiness test left out.
NeverSkipped(block_text) == FALSE

\* `if not block_text: continue`
IsSkipped(block_text) == block_text = << >>

\* The key of elements.sort: el['bbox'][1]
Y0(el) == el.bbox[2]

\* e placed before the elements of equal key: a sort that is not stable.
RECURSIVE InsertBeforeEqual(_, _)
InsertBeforeEqual(sorted, e) ==
  IF sorted = << >> THEN << e >>
  ELSE IF Y0(e) <= Y0(Head(sorted)) THEN << e >> \o sorted
  ELSE << Head(sorted) >> \o InsertBeforeEqual(Tail(sorted), e)

\* e placed after every element of the sorted list whose key is not larger.
RECURSIVE InsertByY0(_, _)
InsertByY0(sorted, e) ==
  IF sorted = << >> THEN << e >>
  ELSE IF Y0(e) < Y0(Head(sorted)) THEN << e >> \o sorted
  ELSE << Head(sorted) >> \o InsertByY0(Tail(sorted), e)

\* list.sort(key=...): ascending by key, equal keys keep their order.
RECURSIVE SortByY0(_)
SortByY0(els) ==
  IF els = << >> THEN << >>
  ELSE InsertByY0(SortByY0(SubSeq(els, 1, Len(els) - 1)), els[Len(els)])

\* The placeholders of lines 93-102, made from the frames of the up-front
\* pass and the _bbox of a second camelot read of the page.
TablePlaceholders(page_tables, reread) ==
  [k \in 1..Len(page_tables) |->
     [type |-> "table_placeholder",
      bbox |-> reread[k]._bbox,
      table_data |-> page_tables[k],
      table_index |-> k - 1]]

\* The placeholders of lines 105-114.
ChartPlaceholders(images, p) ==
  [k \in 1..Len(images) |->
     [type |-> "chart_placeholder",
      bbox |-> << 0, images[k], 0, 0 >>,
      description |-> << "Image/Chart", k, "on page", p >>]]

\* The tracker update without the reset of line 159.
UpdateTrackerNoReset(block_type, block_text, section, sub_section) ==
  IF block_type = "section" THEN << Some(block_text), sub_section >>
  ELSE IF block_type = "sub_section" THEN << section, Some(block_text) >>
  ELSE << section, sub_section >>

\* The tracker update with a sub-section heading clearing the section.
UpdateTrackerSubClearsSection(block_type, block_text, section, sub_section) ==
  IF block_type = "section" THEN << Some(block_text), None >>
  ELSE IF block_type = "sub_section" THEN << None, Some(block_text) >>
  ELSE << section, sub_section >>

\* Lines 157-161: the tracker after a block of tier block_type and text
\* block_text, as << current_section, current_sub_section >>.
UpdateTracker(block_type, block_text, section, sub_section) ==
  IF block_type = "section" THEN << Some(block_text), None >>
  ELSE IF block_type = "sub_section" THEN << section, Some(block_text) >>
  ELSE << section, sub_section >>

\* The table item built without the tracker.
table_json_unstamped(element, section, sub_section) ==
  [type |-> "table", section |-> None, sub_section |-> None,
   description |-> None, table_data |-> element.table_data]

table_json(element, section, sub_section) ==
  [type |-> "table", section |-> section, sub_section |-> sub_section,
   description |-> None, table_data |-> element.table_data]

chart_json(element, section, sub_section) ==
  [type |-> "chart", section |-> section, sub_section |-> sub_section,
   description |-> element.description, Table_data |-> None]

content_item(block_text, section, sub_section) ==
  [type |-> "paragraph", section |-> section, sub_section |-> sub_section,
   text |-> block_text]

\* The item built before the tracker is updated.
StampedBeforeUpdate(block_type, block_text, section, sub_section) ==
  content_item(block_text, section, sub_section)

\* Lines 157-170: the item of a text block of tier block_type, built after the
\* tracker is updated.
Stamped(block_type, block_text, section, sub_section) ==
  LET t == UpdateTracker(block_type, block_text, section, sub_section)
  IN content_item(block_text, t[1], t[2])

\* extract_tables_from_page without its try/except.
extract_tables_uncaught(read) ==
  [raised |-> read.raised, value |-> [k \in 1..Len(read.tables) |-> read.tables[k].df]]

\* extract_tables_from_page, given what camelot.read_pdf did: the frames of
\* the tables it returned, or no frames when it raised.
extract_tables_from_page(read) ==
  IF read.raised THEN [raised |-> FALSE, value |-> << >>]
  ELSE [raised |-> FALSE, value |-> [k \in 1..Len(read.tables) |-> read.tables[k].df]]

\* ----------------------------------------------------------------- actions
\* Lines 73-74: fitz.open raises, or yields a document of ndoc pages.
OpenFails ==
  /\ pc = "open"
  /\ pc' = "raised"
  /\ exc' = "open:73"
  /\ UNCHANGED << ndoc, i, pdf_tables, all_tables, current_section,
                  current_sub_section, page_num, elements, idx, page_content,
                  output_json, failed_pages, gathered, page_start, last, cblock, ctier,
                  set_at, norm, out_file >>

Open ==
  /\ pc = "open"
  /\ \E n \in 0..MaxPages : ndoc' = n
  /\ pc' = "tables"
  /\ i' = 1
  /\ all_tables' = << >>
  /\ output_json' = << >>
  /\ UNCHANGED << exc, pdf_tables, current_section, current_sub_section,
                  page_num, elements, idx, page_content, failed_pages, gathered,
                  page_start, last, cblock, ctier,
                  set_at, norm, out_file >>

\* Lines 78-79, one turn of the up-front loop.
ExtractTables ==
  /\ pc = "tables"
  /\ i <= ndoc
  /\ \E read \in {[raised |-> FALSE, tables |-> ts] : ts \in TablesOfPage(i)}
                 \cup {[raised |-> TRUE, tables |-> << >>]} :
       LET r == extract_tables_from_page(read)
       IN IF r.raised
            THEN /\ pc' = "raised"
                 /\ exc' = "camelot:55"
                 /\ UNCHANGED << i, pdf_tables, all_tables, failed_pages >>
            ELSE /\ all_tables' = Append(all_tables, r.value)
                 /\ pdf_tables' = Append(pdf_tables, read.tables)
                 /\ failed_pages' = IF read.raised THEN failed_pages \cup {i}
                                    ELSE failed_pages
                 /\ i' = i + 1
                 /\ UNCHANGED << pc, exc >>
  /\ UNCHANGED << ndoc, current_section, current_sub_section, page_num,
                  elements, idx, page_content, output_json, gathered,
                  page_start, last, cblock, ctier,
                  set_at, norm, out_file >>

\* Lines 81-84: the up-front loop is over; the tracker is created once.
TablesDone ==
  /\ pc = "tables"
  /\ i > ndoc
  /\ pc' = "page"
  /\ current_section' = None
  /\ current_sub_section' = None
  /\ page_num' = 1
  /\ UNCHANGED << exc, ndoc, i, pdf_tables, all_tables, elements, idx,
                  page_content, output_json, failed_pages, gathered, page_start, last,
                  cblock, ctier,
                  set_at, norm, out_file >>

\* Lines 84-117: the page loop enters page page_num, gathers the text blocks,
\* the table placeholders and the chart placeholders and sorts them.  The
\* tracker enters the page as section, sub_section.
EnterPage(section, sub_section) ==
  /\ pc = "page"
  /\ page_num <= ndoc
  /\ \E blocks \in SeqsUpTo(Blocks, MaxBlocks), images \in ImagesOfPage :
       /\ gathered' = blocks
                        \o TablePlaceholders(all_tables[page_num], pdf_tables[page_num])
                        \o ChartPlaceholders(images, page_num)
       /\ elements' = SortByY0(gathered')
  /\ page_content' = << >>
  /\ idx' = 1
  /\ pc' = "element"
  /\ current_section' = section
  /\ current_sub_section' = sub_section
  /\ page_start' = << current_section, current_sub_section >>
  /\ last' = NoStep
  /\ UNCHANGED << exc, ndoc, i, pdf_tables, all_tables, page_num, output_json,
                  failed_pages, cblock, ctier,
                  set_at, norm, out_file >>

\* The tracker created inside the page loop.
StartPageFreshTracker == EnterPage(None, None)

StartPage == EnterPage(current_section, current_sub_section)

\* Line 96: the second camelot.read_pdf of a page with tables raises; nothing
\* catches it.
BboxLookupRaises ==
  /\ pc = "page"
  /\ page_num <= ndoc
  /\ all_tables[page_num] # << >>
  /\ pc' = "raised"
  /\ exc' = "camelot:96"
  /\ UNCHANGED << ndoc, i, pdf_tables, all_tables, current_section,
                  current_sub_section, page_num, elements, idx, page_content,
                  output_json, failed_pages, gathered, page_start, last, cblock, ctier,
                  set_at, norm, out_file >>

\* Lines 105-109: the page has an image and doc.extract_image or
\* page.get_image_bbox raises for it; nothing catches it.
ImageExtractionRaises ==
  /\ pc = "page"
  /\ page_num <= ndoc
  /\ pc' = "raised"
  /\ exc' = "image:107"
  /\ UNCHANGED << ndoc, i, pdf_tables, all_tables, current_section,
                  current_sub_section, page_num, elements, idx, page_content,
                  output_json, failed_pages, gathered, page_start, last, cblock, ctier,
                  set_at, norm, out_file >>

InLoop == pc = "element" /\ idx <= Len(elements)

Tracker == << current_section, current_sub_section >>

\* Lines 120-130
EmitTable ==
  /\ InLoop
  /\ elements[idx].type = "table_placeholder"
  /\ page_content' = Append(page_content,
                            table_json(elements[idx], current_section, current_sub_section))
  /\ idx' = idx + 1
  /\ last' = Step("table", "", << >>, Tracker)
  /\ UNCHANGED << pc, exc, ndoc, i, pdf_tables, all_tables, current_section,
                  current_sub_section, page_num, elements, output_json,
                  failed_pages, gathered, page_start, cblock, ctier,
                  set_at, norm, out_file >>

\* Lines 132-141 without the append of line 140.
EmitChartNoAppend ==
  /\ InLoop
  /\ elements[idx].type = "chart_placeholder"
  /\ idx' = idx + 1
  /\ last' = Step("chart", "", << >>, Tracker)
  /\ UNCHANGED << pc, exc, ndoc, i, pdf_tables, all_tables, current_section,
                  current_sub_section, page_num, elements, page_content,
                  output_json, failed_pages, gathered, page_start, cblock,
                  ctier, set_at, norm, out_file >>

\* Lines 132-141
EmitChart ==
  /\ InLoop
  /\ elements[idx].type = "chart_placeholder"
  /\ page_content' = Append(page_content,
                            chart_json(elements[idx], current_section, current_sub_section))
  /\ idx' = idx + 1
  /\ last' = Step("chart", "", << >>, Tracker)
  /\ UNCHANGED << pc, exc, ndoc, i, pdf_tables, all_tables, current_section,
                  current_sub_section, page_num, elements, output_json,
                  failed_pages, gathered, page_start, cblock, ctier,
                  set_at, norm, out_file >>

IsPlaceholder(el) == el.type \in {"table_placeholder", "chart_placeholder"}

\* Lines 144-145: a block without 'lines' (an image block)
SkipNoLines ==
  /\ InLoop
  /\ ~IsPlaceholder(elements[idx])
  /\ "lines" \notin DOMAIN elements[idx]
  /\ idx' = idx + 1
  /\ last' = Step("no_lines", "", << >>, Tracker)
  /\ UNCHANGED << pc, exc, ndoc, i, pdf_tables, all_tables, current_section,
                  current_sub_section, page_num, elements, page_content,
                  output_json, failed_pages, gathered, page_start, cblock, ctier,
                  set_at, norm, out_file >>

IsTextBlock(el) == ~IsPlaceholder(el) /\ "lines" \in DOMAIN el

\* Lines 147-161 with the emptiness test after the tracker update: a blank
\* block is classified and moves the tracker before it is skipped.
SkipEmptyAfterUpdate ==
  /\ InLoop
  /\ IsTextBlock(elements[idx])
  /\ IsSkipped(BlockText(elements[idx]))
  /\ LET block_type == classify_text_block(elements[idx])
         t == UpdateTracker(block_type, BlockText(elements[idx]),
                            current_section, current_sub_section)
     IN /\ block_type # "IndexError"
        /\ current_section' = t[1]
        /\ current_sub_section' = t[2]
  /\ idx' = idx + 1
  /\ last' = Step("empty", "", << >>, Tracker)
  /\ UNCHANGED << pc, exc, ndoc, i, pdf_tables, all_tables, page_num, elements,
                  page_content, output_json, failed_pages, gathered,
                  page_start, cblock, ctier, set_at, norm, out_file >>

\* Lines 147-153: a text block whose cleaned text is empty
SkipEmpty ==
  /\ InLoop
  /\ IsTextBlock(elements[idx])
  /\ IsSkipped(BlockText(elements[idx]))
  /\ idx' = idx + 1
  /\ last' = Step("empty", "", << >>, Tracker)
  /\ UNCHANGED << pc, exc, ndoc, i, pdf_tables, all_tables, current_section,
                  current_sub_section, page_num, elements, page_content,
                  output_json, failed_pages, gathered, page_start, cblock, ctier,
                  set_at, norm, out_file >>

\* Lines 155-171: classify, update the tracker, emit the paragraph
EmitParagraph ==
  /\ InLoop
  /\ IsTextBlock(elements[idx])
  /\ LET block_text == BlockText(elements[idx])
         block_type == classify_text_block(elements[idx])
         t == UpdateTracker(block_type, block_text, current_section, current_sub_section)
     IN /\ ~IsSkipped(block_text)
        /\ block_type # "IndexError"
        /\ current_section' = t[1]
        /\ current_sub_section' = t[2]
        /\ page_content' = Append(page_content,
                                  Stamped(block_type, block_text,
                                          current_section, current_sub_section))
        /\ last' = Step("text", block_type, block_text, Tracker)
        /\ set_at' = LET pos == << page_num, Len(page_content) + 1 >>
                      IN IF block_type = "section" THEN << pos, set_at[2] >>
                         ELSE IF block_type = "sub_section" THEN << set_at[1], pos >>
                         ELSE set_at
  /\ idx' = idx + 1
  /\ UNCHANGED << pc, exc, ndoc, i, pdf_tables, all_tables, page_num, elements,
                  output_json, failed_pages, gathered, page_start, cblock, ctier,
                  norm, out_file >>

\* Line 155 with line 35: classify_text_block raises IndexError; nothing
\* catches it.
ClassifyRaises ==
  /\ InLoop
  /\ IsTextBlock(elements[idx])
  /\ ~IsSkipped(BlockText(elements[idx]))
  /\ classify_text_block(elements[idx]) = "IndexError"
  /\ pc' = "raised"
  /\ exc' = "IndexError:35"
  /\ last' = Step("raise", "", << >>, Tracker)
  /\ UNCHANGED << ndoc, i, pdf_tables, all_tables, current_section,
                  current_sub_section, page_num, elements, idx, page_content,
                  output_json, failed_pages, gathered, page_start, cblock, ctier,
                  set_at, norm, out_file >>

\* The page entry numbered from 0, as enumerate(doc) without its start.
PageEntryFromZero(p, content) == [page_number |-> p - 1, content |-> content]

\* Lines 173-176: the entry appended to output_json["pages"].
PageEntry(p, content) == [page_number |-> p, content |-> content]

\* Lines 173-176: the element loop is over; the page is appended.
EndPage ==
  /\ pc = "element"
  /\ idx > Len(elements)
  /\ output_json' = Append(output_json, PageEntry(page_num, page_content))
  /\ page_num' = page_num + 1
  /\ pc' = "page"
  /\ UNCHANGED << exc, ndoc, i, pdf_tables, all_tables, current_section,
                  current_sub_section, elements, idx, page_content,
                  failed_pages, gathered, page_start, last, cblock, ctier,
                  set_at, norm, out_file >>

\* Lines 178-179
Return ==
  /\ pc = "page"
  /\ page_num > ndoc
  /\ pc' = "returned"
  /\ UNCHANGED << exc, ndoc, i, pdf_tables, all_tables, current_section,
                  current_sub_section, page_num, elements, idx, page_content,
                  output_json, failed_pages, gathered, page_start, last, cblock, ctier,
                  set_at, norm, out_file >>

\* ---------------------------------------------------------------------- main
\* Line 193: open(args.output_json, 'w') raises; no file is made.
OpenOutputFails ==
  /\ pc = "returned"
  /\ pc' = "raised"
  /\ exc' = "open:193"
  /\ UNCHANGED << ndoc, i, pdf_tables, all_tables, current_section,
                  current_sub_section, page_num, elements, idx, page_content,
                  output_json, failed_pages, gathered, page_start, last,
                  set_at, out_file, norm, cblock, ctier >>

\* Line 193: the file is created, or truncated, and is empty.
OpenOutput ==
  /\ pc = "returned"
  /\ pc' = "dump"
  /\ out_file' = [exists |-> TRUE, written |-> 0, complete |-> FALSE]
  /\ UNCHANGED << exc, ndoc, i, pdf_tables, all_tables, current_section,
                  current_sub_section, page_num, elements, idx, page_content,
                  output_json, failed_pages, gathered, page_start, last,
                  set_at, norm, cblock, ctier >>

\* Line 194: json.dump writes the document piece by piece; a write raises
\* (the disk is full, a character cannot be encoded) after k page entries.
\* The with statement closes the file and the error leaves main.
DumpFails ==
  /\ pc = "dump"
  /\ \E k \in 0..Len(output_json) :
       out_file' = [exists |-> TRUE, written |-> k, complete |-> FALSE]
  /\ pc' = "raised"
  /\ exc' = "write:194"
  /\ UNCHANGED << ndoc, i, pdf_tables, all_tables, current_section,
                  current_sub_section, page_num, elements, idx, page_content,
                  output_json, failed_pages, gathered, page_start, last,
                  set_at, norm, cblock, ctier >>

\* Lines 194-196: the whole document is written and the file closed.
Dump ==
  /\ pc = "dump"
  /\ out_file' = [exists |-> TRUE, written |-> Len(output_json), complete |-> TRUE]
  /\ pc' = "saved"
  /\ UNCHANGED << exc, ndoc, i, pdf_tables, all_tables, current_section,
                  current_sub_section, page_num, elements, idx, page_content,
                  output_json, failed_pages, gathered, page_start, last,
                  set_at, norm, cblock, ctier >>

Next ==
  \/ OpenFails
  \/ Open
  \/ ExtractTables
  \/ TablesDone
  \/ StartPage
  \/ BboxLookupRaises
  \/ ImageExtractionRaises
  \/ EmitTable
  \/ EmitChart
  \/ SkipNoLines
  \/ SkipEmpty
  \/ EmitParagraph
  \/ ClassifyRaises
  \/ EndPage
  \/ Return

\* One call of parse_pdf_to_json.
Spec == Init /\ [][Next]_vars

NextMain ==
  \/ Next
  \/ OpenOutputFails
  \/ OpenOutput
  \/ DumpFails
  \/ Dump

\* One run of main: the call of line 191, then lines 193-196.
SpecMain == Init /\ [][NextMain]_vars

\* ------------------------------------------- the classifier called on its own
Sizes == {90, 115, 116, 140, 141, 160}
Fonts == {FontBold, FontBoldMT, FontBol, FontRegular}
FirstTexts == {<< >>, << " " >>, Words(1), Words(3), Words(9), Words(10),
               << " " >> \o Words(9) \o << "\n" >>}

\* Spans after the first one of the first line: large and bold, the first
\* starting a new word and the second continuing the word before it.
LaterSpans == {Span(<< " ", "a" >>, 160, FontBold), Span(<< "a" >>, 160, FontBold)}

\* Lines after the first one: large, bold, two words.
LaterLines == {Line(<< Span(Words(2), 160, FontBold) >>)}

FirstLines ==
  {Line(<< >>)} \cup
  {Line(<< Span(t, sz, f) >> \o more) :
     t \in FirstTexts, sz \in Sizes, f \in Fonts,
     more \in SeqsUpTo(LaterSpans, MaxSpans - 1)}

ClassifierBlocks ==
  {TextBlock(1, << >>)} \cup
  {TextBlock(1, << l >> \o more) :
     l \in FirstLines, more \in SeqsUpTo(LaterLines, MaxLines - 1)}

ClassifyInit ==
  /\ ParseInit
  /\ norm = NoNorm
  /\ cblock \in ClassifierBlocks
  /\ ctier = "unset"

\* One call classify_text_block(cblock).
Classify ==
  /\ ctier = "unset"
  /\ ctier' = classify_text_block(cblock)
  /\ UNCHANGED << cblock, norm, parse_vars >>

SpecClassify == ClassifyInit /\ [][Classify]_vars

\* ================================================================== claims
LastItem == page_content[Len(page_content)]

\* C1 (reset law): when the element loop has just handled a non-empty text
\* block of tier 'section', the item it appended is that block's paragraph,
\* its sub_section is None whatever current_sub_section was before, its
\* section is the block's text, and the tracker holds the same pair.
C1_ResetLaw ==
  (last.kind = "text" /\ last.tier = "section") =>
    /\ page_content # << >>
    /\ LastItem.type = "paragraph"
    /\ LastItem.text = last.text
    /\ LastItem.sub_section = None
    /\ LastItem.section = Some(last.text)
    /\ current_sub_section = None
    /\ current_section = Some(last.text)

\* A section heading handled while a sub-section was active.
C1_Witness ==
  /\ last.kind = "text"
  /\ last.tier = "section"
  /\ last.before[2] # None

\* A page has no heading when none of its non-empty text blocks is classified
\* 'section' or 'sub_section'.
NoHeading(els) ==
  \A k \in 1..Len(els) :
    (IsTextBlock(els[k]) /\ BlockText(els[k]) # << >>) =>
      classify_text_block(els[k]) \notin {"section", "sub_section"}

\* The page whose elements are held, and the items emitted for it so far.
HeldPage == IF pc = "element" THEN page_num ELSE page_num - 1
HeldContent == IF pc = "element" THEN page_content ELSE output_json[page_num - 1].content

\* C2 (cross-page persistence): on a page k > 1 without headings every item,
\* emitted so far or appended to the document, carries the section and
\* sub_section that were active when page k - 1 ended.
C2_CrossPage ==
  (pc \in {"element", "page", "returned"} /\ HeldPage > 1 /\ NoHeading(elements)) =>
    \A k \in 1..Len(HeldContent) :
      << HeldContent[k].section, HeldContent[k].sub_section >> = page_start

\* Page 2 is done, has no heading, and its items carry a section and a
\* sub-section from page 1.
C2_Witness ==
  /\ pc = "page"
  /\ page_num = 3
  /\ NoHeading(elements)
  /\ Len(output_json[2].content) >= 2
  /\ page_start[1] # None
  /\ page_start[2] # None

\* An element that yields an item.
Emits(el) == IsPlaceholder(el) \/ (IsTextBlock(el) /\ BlockText(el) # << >>)

\* item is the item of element el.
ItemFrom(item, el) ==
  IF el.type = "table_placeholder"
    THEN item.type = "table" /\ item.table_data = el.table_data
  ELSE IF el.type = "chart_placeholder"
    THEN item.type = "chart" /\ item.description = el.description
  ELSE item.type = "paragraph" /\ item.text = BlockText(el)

\* The place of gathered[k] in a stable ascending order by y0.
Rank(k) ==
  1 + Cardinality({j \in 1..Len(gathered) :
                     \/ Y0(gathered[j]) < Y0(gathered[k])
                     \/ Y0(gathered[j]) = Y0(gathered[k]) /\ j < k})

\* The elements the loop has passed that yield an item.
Passed == SelectSeq(SubSeq(elements, 1, idx - 1), Emits)

\* C3 (ordering law): the loop runs over the gathered elements [text blocks,
\* tables, images] in ascending y0, equal y0 in gathered order, and the items
\* of the page are those of the passed elements, in that order.
C3_Ordering ==
  /\ Len(elements) = Len(gathered)
  /\ \A k \in 1..Len(gathered) : elements[Rank(k)] = gathered[k]
  /\ Len(page_content) = Len(Passed)
  /\ \A k \in 1..Len(Passed) : ItemFrom(page_content[k], Passed[k])
  /\ \A k \in 1..(Len(Passed) - 1) : Y0(Passed[k]) <= Y0(Passed[k + 1])

\* A page is done on which a text block, a table and an image share one y0,
\* the sort has moved an element, and three items or more were emitted.
C3_Witness ==
  /\ pc = "page"
  /\ gathered # elements
  /\ Len(page_content) >= 3
  /\ \E a, b, c \in 1..Len(elements) :
       /\ a < b /\ b < c
       /\ IsTextBlock(elements[a]) /\ BlockText(elements[a]) # << >>
       /\ elements[b].type = "table_placeholder"
       /\ elements[c].type = "chart_placeholder"
       /\ Y0(elements[a]) = Y0(elements[b])
       /\ Y0(elements[b]) = Y0(elements[c])

IsTable(item) == item.type = "table"
TableItems(q) == SelectSeq(output_json[q].content, IsTable)

\* C4 (partial-failure isolation for tables): a camelot failure in the
\* up-front pass never leaves parse_pdf_to_json; the failed page gets no
\* frames and no table item; every other appended page has exactly the frames
\* the file holds for it; and the returned document has the pages 1..ndoc.
C4_TableIsolation ==
  /\ exc # "camelot:55"
  /\ \A p \in failed_pages : all_tables[p] = << >>
  /\ \A q \in 1..Len(output_json) :
       IF q \in failed_pages
         THEN TableItems(q) = << >>
         ELSE /\ Len(TableItems(q)) = Len(pdf_tables[q])
              /\ {TableItems(q)[k].table_data : k \in 1..Len(TableItems(q))}
                   = {pdf_tables[q][k].df : k \in 1..Len(pdf_tables[q])}
  /\ pc = "returned" =>
       /\ Len(output_json) = ndoc
       /\ \A q \in 1..ndoc : output_json[q].page_number = q

\* A two-page document returned after the up-front pass failed for page 1
\* only, page 2 holding its table.
C4_Witness ==
  /\ pc = "returned"
  /\ ndoc = 2
  /\ failed_pages = {1}
  /\ TableItems(1) = << >>
  /\ Len(TableItems(2)) = 1

\* C5 (recoverable errors never abort the document), as claimed: no failure
\* of camelot or of the image extraction leaves parse_pdf_to_json.
C5_NeverAborts == exc \notin {"camelot:55", "camelot:96", "image:107"}

\* C6 (fatal input error), as claimed: parse_pdf_to_json returns a document
\* only when the file could be opened and has a page.
C6_FatalInput == pc = "returned" => (exc = "none" /\ ndoc >= 1)

\* C7 (the classifier is total), as claimed: no call of classify_text_block
\* raises, on its own or inside parse_pdf_to_json.
C7_ClassifierTotal == exc # "IndexError:35" /\ ctier # "IndexError"

\* What the decision table reads of a block with a first span.
FirstSpan(block) == block.lines[1].spans[1]
WordCount(block) == Len(Split(Strip(Join(<< >>, SpanTexts(block.lines[1])))))
HasFirstSpan(block) == block.lines # << >> /\ block.lines[1].spans # << >>

\* C8 (decision table): for a block with a first span, the tier is 'section'
\* iff size > 14.0 and bold; otherwise 'sub_section' iff bold and (size > 11.5
\* or wordCount < 10); otherwise 'paragraph'; size, boldness and word count
\* being those of the first span and of the first line.  So a block that is
\* not bold is a paragraph, size 14.0 bold is a sub-section, and size <= 11.5
\* bold with exactly 10 words is a paragraph.
C8_DecisionTable ==
  (ctier # "unset" /\ HasFirstSpan(cblock)) =>
    LET size == FirstSpan(cblock).size
        bold == is_bold(FirstSpan(cblock))
        wc == WordCount(cblock)
        section == size > 140 /\ bold
        sub == ~section /\ bold /\ (size > 115 \/ wc < 10)
    IN /\ ctier \in {"section", "sub_section", "paragraph"}
       /\ (ctier = "section") <=> section
       /\ (ctier = "sub_section") <=> sub
       /\ (ctier = "paragraph") <=> (~section /\ ~sub)
       /\ ~bold => ctier = "paragraph"
       /\ (bold /\ size = 140) => ctier = "sub_section"
       /\ (bold /\ size <= 115 /\ wc = 10) => ctier = "paragraph"
       /\ (bold /\ size <= 115 /\ wc = 9) => ctier = "sub_section"

\* A bold block of size 11.5 whose first line has exactly ten words, its
\* later span and later line large and bold, classified as a paragraph.
C8_Witness ==
  /\ ctier = "paragraph"
  /\ HasFirstSpan(cblock)
  /\ is_bold(FirstSpan(cblock))
  /\ FirstSpan(cblock).size = 115
  /\ WordCount(cblock) = 10
  /\ Len(cblock.lines) = 2
  /\ Len(cblock.lines[1].spans) = 2

\* C9 (empty text is skipped): no paragraph item, of the page in hand or of
\* the document, has an empty text.
C9_NoEmptyParagraph ==
  /\ \A k \in 1..Len(page_content) :
       page_content[k].type = "paragraph" => page_content[k].text # << >>
  /\ \A q \in 1..Len(output_json) :
       \A k \in 1..Len(output_json[q].content) :
         output_json[q].content[k].type = "paragraph" =>
           output_json[q].content[k].text # << >>

\* A document returned whose last page ended with a skipped blank block
\* after an emitted item.
C9_Witness ==
  /\ pc = "returned"
  /\ last.kind = "empty"
  /\ page_content # << >>
  /\ \E k \in 1..Len(elements) :
       IsTextBlock(elements[k]) /\ BlockText(elements[k]) = << >>

\* C10 (a heading is stamped with its own updated context): the paragraph of
\* a 'section' block has section equal to its own text; the paragraph of a
\* 'sub_section' block has sub_section equal to its own text and the section
\* that was current before.
C10_HeadingStampsItself ==
  (last.kind = "text" /\ page_content # << >>) =>
    /\ LastItem.type = "paragraph"
    /\ LastItem.text = last.text
    /\ last.tier = "section" => LastItem.section = Some(last.text)
    /\ last.tier = "sub_section" =>
         /\ LastItem.sub_section = Some(last.text)
         /\ LastItem.section = last.before[1]

\* A sub-section heading handled under an active section with no sub-section
\* yet.
C10_Witness ==
  /\ last.kind = "text"
  /\ last.tier = "sub_section"
  /\ last.before[1] # None
  /\ last.before[2] = None

\* C11 (one page entry per source page): the entries of output_json are
\* numbered 1, 2, ... in order, there are never more than the pages entered,
\* and ndoc of them when parse_pdf_to_json returns; output_json changes only
\* by the append of the entry of page page_num, made of page_content, once
\* the element loop is over; the entries before it stay as they were.
C11_PagesInOrder ==
  /\ [](/\ \A q \in 1..Len(output_json) : output_json[q].page_number = q
        /\ pc = "element" => Len(output_json) = page_num - 1
        /\ pc = "page" => Len(output_json) = page_num - 1
        /\ pc = "returned" => Len(output_json) = ndoc)
  /\ [][output_json' # output_json =>
          /\ pc = "element"
          /\ idx > Len(elements)
          /\ Len(output_json') = Len(output_json) + 1
          /\ \A q \in 1..Len(output_json) : output_json'[q] = output_json[q]
          /\ output_json'[Len(output_json')].page_number = page_num
          /\ output_json'[Len(output_json')].content = page_content]_vars

\* A document of two pages returned, each page with an item.
C11_Witness ==
  /\ pc = "returned"
  /\ ndoc = 2
  /\ Len(output_json) = 2
  /\ output_json[1].content # << >>
  /\ output_json[2].content # << >>

\* C12 (all-or-nothing output), as claimed: when an error leaves main, the
\* output file was not created and holds nothing.
C12_AllOrNothing == pc = "raised" => out_file = NoFile

\* ------------------------------------------- clean_text called on its own
NormChars == {"a", "b", " ", "\n", "\t"}

NormInit ==
  /\ ParseInit
  /\ cblock = TextBlock(1, << >>)
  /\ ctier = "unset"
  /\ \E s \in SeqsUpTo(NormChars, MaxLen) :
       norm = [input |-> s, text |-> s, prev |-> s, applied |-> 0]

\* text = clean_text(text), at most twice.
Normalize ==
  /\ norm.applied < 2
  /\ norm' = [input |-> norm.input,
              text |-> clean_text(norm.text),
              prev |-> norm.text,
              applied |-> norm.applied + 1]
  /\ UNCHANGED << cblock, ctier, parse_vars >>

SpecClean == NormInit /\ [][Normalize]_vars

\* No blank at either end, and every blank a single space between non-blanks.
IsClean(s) ==
  \A k \in 1..Len(s) :
    IsSpace(s[k]) => /\ s[k] = " "
                     /\ k > 1 /\ k < Len(s)
                     /\ ~IsSpace(s[k + 1])

\* C13 (normalisation is idempotent): clean_text of a result of clean_text is
\* that result, and clean_text of a string that is already clean is that
\* string.
C13_Idempotent ==
  /\ norm.applied = 2 => norm.text = norm.prev
  /\ (norm.applied = 1 /\ IsClean(norm.prev)) => norm.text = norm.prev

\* clean_text applied twice to a string that starts with a blank and holds
\* a run of two blanks or more with a newline between two words.
C13_Witness ==
  /\ norm.applied = 2
  /\ Len(norm.input) = MaxLen
  /\ IsSpace(norm.input[1])
  /\ ~IsSpace(norm.input[2])
  /\ IsSpace(norm.input[3])
  /\ norm.input[4] = "\n"
  /\ ~IsSpace(norm.input[5])
  /\ Len(norm.text) = 3
  /\ norm.text[2] = " "

\* The loop is at a placeholder.
AtPlaceholder == InLoop /\ IsPlaceholder(elements[idx])

\* C14 (tables and images only read the tracker): a step of the loop at a
\* table or chart placeholder leaves current_section and current_sub_section
\* as they are and appends one item, of the placeholder's kind, carrying the
\* tracker of that moment.
C14_PlaceholdersReadTracker ==
  [][AtPlaceholder =>
       /\ current_section' = current_section
       /\ current_sub_section' = current_sub_section
       /\ Len(page_content') = Len(page_content) + 1
       /\ SubSeq(page_content', 1, Len(page_content)) = page_content
       /\ LET item == page_content'[Len(page_content')]
          IN /\ item.section = current_section
             /\ item.sub_section = current_sub_section
             /\ item.type = IF elements[idx].type = "table_placeholder"
                              THEN "table" ELSE "chart"]_vars

\* A table item emitted under an active section and sub-section.
C14_Witness ==
  /\ last.kind = "table"
  /\ last.before[1] # None
  /\ last.before[2] # None
  /\ LastItem.type = "table"
  /\ LastItem.sub_section = last.before[2]

\* The loop is at a non-empty text block that the classifier puts in tier t.
AtText(t) ==
  /\ InLoop
  /\ IsTextBlock(elements[idx])
  /\ BlockText(elements[idx]) # << >>
  /\ classify_text_block(elements[idx]) = t

\* C15 (text transitions change only what they name): current_section
\* changes only in a step at a 'section' block, current_sub_section only in a
\* step at a 'section' or 'sub_section' block; a step at a 'sub_section' block
\* sets current_sub_section to the block's text and leaves current_section;
\* a step at a 'paragraph' block leaves both.
C15_TextTransitions ==
  [][/\ current_section' # current_section => AtText("section")
     /\ current_sub_section' # current_sub_section =>
          AtText("section") \/ AtText("sub_section")
     /\ AtText("sub_section") =>
          /\ current_section' = current_section
          /\ current_sub_section' = Some(BlockText(elements[idx]))
     /\ AtText("paragraph") =>
          /\ current_section' = current_section
          /\ current_sub_section' = current_sub_section]_vars

\* A paragraph block handled under an active section and sub-section, both
\* still in force.
C15_Witness ==
  /\ last.kind = "text"
  /\ last.tier = "paragraph"
  /\ last.before[1] # None
  /\ last.before[2] # None
  /\ Tracker = last.before

\* Position a is before position b in document order.
Before(a, b) == a[1] < b[1] \/ (a[1] = b[1] /\ a[2] < b[2])

\* The item at a position: of an appended page, or of the page in hand.
ItemAt(pos) ==
  IF pos[1] <= Len(output_json) THEN output_json[pos[1]].content[pos[2]]
  ELSE page_content[pos[2]]

\* C16 (a sub-section belongs to the current section): every item is emitted
\* with the tracker of its moment, and whenever the tracker holds a section
\* and a sub-section, the heading that set the sub-section comes, in
\* document order, strictly after the heading that set the section.
C16_SubSectionAfterSection ==
  /\ last.kind \in {"text", "table", "chart"} =>
       << LastItem.section, LastItem.sub_section >> = Tracker
  /\ (current_section # None /\ current_sub_section # None) =>
       /\ set_at[1] # NoPos
       /\ Before(set_at[1], set_at[2])
       /\ Some(ItemAt(set_at[1]).text) = current_section
       /\ Some(ItemAt(set_at[2]).text) = current_sub_section

\* A table item on page 2 carrying a section set on page 1 and a sub-section
\* set on page 2, after an earlier sub-section on page 1 was reset.
C16_Witness ==
  /\ last.kind = "table"
  /\ LastItem.section # None
  /\ LastItem.sub_section # None
  /\ set_at[1][1] = 1
  /\ set_at[2][1] = 2
  /\ output_json[1].content[1].sub_section # None
  /\ output_json[1].content[1].section = None

\* The loop is at a text block whose cleaned text is empty.
AtBlank ==
  /\ InLoop
  /\ IsTextBlock(elements[idx])
  /\ BlockText(elements[idx]) = << >>

\* C17 (a skipped block does not touch the tracker): a step of the loop at
\* a text block with empty cleaned text leaves current_section,
\* current_sub_section and page_content as they are, whatever the classifier
\* would make of the block.
C17_SkippedLeavesTracker ==
  [][AtBlank =>
       /\ current_section' = current_section
       /\ current_sub_section' = current_sub_section
       /\ page_content' = page_content
       /\ idx' = idx + 1]_vars

\* A blank block that the classifier would call a section, skipped under an
\* active section and sub-section.
C17_Witness ==
  /\ last.kind = "empty"
  /\ idx > 1
  /\ classify_text_block(elements[idx - 1]) = "section"
  /\ last.before[1] # None
  /\ last.before[2] # None
  /\ Tracker = last.before

\* How many items of a type a content list has, and how many gathered
\* elements satisfy a test.
CountItems(content, t) == Cardinality({k \in 1..Len(content) : content[k].type = t})
CountGathered(Test(_)) == Cardinality({k \in 1..Len(gathered) : Test(gathered[k])})
IsTablePlaceholder(el) == el.type = "table_placeholder"
IsChartPlaceholder(el) == el.type = "chart_placeholder"
IsFilledText(el) == IsTextBlock(el) /\ BlockText(el) # << >>

\* C18 (item conservation): the loop never has more items than elements
\* passed, and an appended page has one table item per frame extracted for
\* the page, one chart item per image, one paragraph item per text block
\* with non-empty cleaned text, and nothing else.
C18_Conservation ==
  /\ Len(page_content) <= idx - 1
  /\ (pc \in {"page", "returned"} /\ page_num > 1) =>
       LET c == output_json[page_num - 1].content
       IN /\ CountItems(c, "table") = Len(all_tables[page_num - 1])
          /\ CountItems(c, "chart") = CountGathered(IsChartPlaceholder)
          /\ CountItems(c, "paragraph") = CountGathered(IsFilledText)
          /\ Len(c) = CountItems(c, "table") + CountItems(c, "chart")
                        + CountItems(c, "paragraph")

\* A page appended with a table, a chart and a paragraph, one of its four
\* elements having been skipped.
C18_Witness ==
  /\ pc = "page"
  /\ Len(gathered) = 4
  /\ Len(page_content) = 3
  /\ CountItems(page_content, "table") = 1
  /\ CountItems(page_content, "chart") = 1
  /\ CountItems(page_content, "paragraph") = 1

\* C19 (termination), as claimed: once the document is open, no failure of a
\* collaborator ends the run, and the run ends by returning all ndoc pages.
C19_ReturnsAllPages ==
  /\ pc = "raised" => exc = "open:73"
  /\ pc = "returned" => Len(output_json) = ndoc

====
